---- MODULE Spec2Model ----
(***************************************************************************)
(* Model of tools/generate_audio.py: the audio tour generator.             *)
(*                                                                         *)
(* The state is the tour folder on disk (tour.json, the audio directory,   *)
(* the audio files) and the position of one run of main().  A behaviour is *)
(* a sequence of runs of the command on the same folder.                   *)
(*                                                                         *)
(* Paths are relative to the tour folder.  An audio file is modelled by    *)
(* its length in half seconds, so that int(audio.info.length) truncates.   *)
(***************************************************************************)
EXTENDS Integers, Sequences, FiniteSets, TLC

\* ---- bounds of the model ----
MaxStops == 2          \* stops in a tour document
MaxRuns == 2           \* runs of the command that call process_tour
MaxHalfSeconds == 2    \* longest synthesized audio, in half seconds

\* ---- the tour document ----
StopIds == {1, 12}
NamedStopIds == {1}
Scripts == {"Welcome."}
ExplicitAudioFiles == {"intro.mp3"}
RecordedDurations == {1}

\* A stop is a JSON object: the optional keys may be absent.
Stops ==
    [id : StopIds, script : Scripts]
    \cup [id : NamedStopIds, script : Scripts, audioFile : ExplicitAudioFiles]
    \cup [id : StopIds, script : Scripts, audioDuration : RecordedDurations]
    \cup [id : NamedStopIds, script : Scripts, audioFile : ExplicitAudioFiles,
          audioDuration : RecordedDurations]

StopLists == UNION {[1..n -> Stops] : n \in 0..MaxStops}

\* tour.json on disk: its formatting and its content.  "hand" is the layout
\* its author gave it, "indent2" the one json.dump(indent=2) produces.
Missing == [exists |-> FALSE]
TourFile(fmt, stops) == [exists |-> TRUE, format |-> fmt, stops |-> stops]

\* json.load keeps the content and forgets the layout.
JsonLoad(file) == file.stops

\* json.dump(tour, f, indent=2, ensure_ascii=False)
JsonDump(stops) == TourFile("indent2", stops)

\* ---- paths ----
StartsWith(s, prefix) ==
    /\ Len(s) >= Len(prefix)
    /\ SubSeq(s, 1, Len(prefix)) = prefix

\* Variant: the identifier is not padded.
Pad2_NoPad(n) == ToString(n)

\* f"{stop_id:02d}"
Pad2(n) == IF n < 10 THEN "0" \o ToString(n) ELSE ToString(n)

\* stop.get('audioFile', f"audio/{stop_id:02d}-stop.mp3")
AudioFileOf(stop) ==
    IF "audioFile" \in DOMAIN stop
    THEN stop.audioFile
    ELSE "audio/" \o Pad2(stop.id) \o "-stop.mp3"

\* Normalize audio file path
OutputPath(audio_file) ==
    IF StartsWith(audio_file, "audio/")
    THEN audio_file
    ELSE "audio/" \o audio_file

PathOf(stop) == OutputPath(AudioFileOf(stop))

Paths == {PathOf(s) : s \in Stops}

\* ---- audio files ----
NoFile == [exists |-> FALSE, halfSeconds |-> 0]
AudioFile(h) == [exists |-> TRUE, halfSeconds |-> h]

\* Variant: the length is rounded instead of truncated.
Duration_Rounds(file) == (file.halfSeconds + 1) \div 2

\* int(audio.info.length)
Duration(file) == file.halfSeconds \div 2

VARIABLES
    tourJson,    \* tour.json on disk, or Missing
    audioDir,    \* the audio directory exists
    files,       \* the audio file at each path
    pc,          \* position of the current run of main
    runs,        \* runs so far that called process_tour
    overwrite,   \* args.overwrite of the current run
    updateFlag,  \* args.update_durations of the current run
    mutagen,     \* the import of mutagen succeeded in the current run
    tour,        \* the stops loaded by process_tour
    i,           \* index of the next stop of the loop of process_tour
    calls,       \* what process_tour did with each stop it reached
    success,     \* the value process_tour returned
    backfill,    \* what the current run did about durations
    unread,      \* stops whose duration the last back-fill could not read
    exitCode     \* exit status of the last run of the command

vars == <<tourJson, audioDir, files, pc, runs, overwrite, updateFlag, mutagen,
          tour, i, calls, success, backfill, unread, exitCode>>

Init ==
    /\ tourJson \in {Missing} \cup {TourFile("hand", s) : s \in StopLists}
    /\ audioDir = FALSE
    /\ files = [p \in Paths |-> NoFile]
    /\ pc = "idle"
    /\ runs = 0
    /\ overwrite = FALSE
    /\ updateFlag = FALSE
    /\ mutagen = FALSE
    /\ tour = <<>>
    /\ i = 1
    /\ calls = <<>>
    /\ success = FALSE
    /\ backfill = "none"
    /\ unread = {}
    /\ exitCode = 0

\* ---- process_tour ----

\* Variant: the flag is read the wrong way round.
ShouldSkip_FlagInverted(exists, ow) == exists /\ ow

\* Variant: the flag is not consulted.
ShouldSkip_IgnoresFlag(exists, ow) == exists

\* if output_path.exists() and not overwrite: ... continue
ShouldSkip(exists, ow) == exists /\ ~ow

Call(k, existed, outcome) == [stop |-> k, existed |-> existed, outcome |-> outcome]

\* Variant: the audio directory is created before tour.json is looked for.
ProcessTourMissing_MakesDir ==
    /\ pc = "process_tour"
    /\ ~tourJson.exists
    /\ audioDir' = TRUE
    /\ success' = FALSE
    /\ pc' = "returned"
    /\ UNCHANGED <<tourJson, files, runs, overwrite, updateFlag,
                   mutagen, tour, i, calls, backfill, unread, exitCode>>

\* tour.json not found: report and return False
ProcessTourMissing ==
    /\ pc = "process_tour"
    /\ ~tourJson.exists
    /\ success' = FALSE
    /\ pc' = "returned"
    /\ UNCHANGED <<tourJson, audioDir, files, runs, overwrite, updateFlag,
                   mutagen, tour, i, calls, backfill, unread, exitCode>>

\* load the tour data and create the audio directory
ProcessTourLoad ==
    /\ pc = "process_tour"
    /\ tourJson.exists
    /\ tour' = JsonLoad(tourJson)
    /\ audioDir' = TRUE
    /\ i' = 1
    /\ pc' = "loop"
    /\ UNCHANGED <<tourJson, files, runs, overwrite, updateFlag, mutagen,
                   calls, success, backfill, unread, exitCode>>

\* the stop's file exists and overwrite is off: continue
SkipStop ==
    /\ pc = "loop"
    /\ i <= Len(tour)
    /\ ShouldSkip(files[PathOf(tour[i])].exists, overwrite)
    /\ calls' = Append(calls, Call(i, files[PathOf(tour[i])].exists, "skip"))
    /\ i' = i + 1
    /\ UNCHANGED <<tourJson, audioDir, files, pc, runs, overwrite, updateFlag,
                   mutagen, tour, success, backfill, unread, exitCode>>

\* generate_audio returns: the file holds the synthesized audio
GenerateOk ==
    /\ pc = "loop"
    /\ i <= Len(tour)
    /\ ~ShouldSkip(files[PathOf(tour[i])].exists, overwrite)
    /\ \E h \in 1..MaxHalfSeconds :
          files' = [files EXCEPT ![PathOf(tour[i])] = AudioFile(h)]
    /\ calls' = Append(calls, Call(i, files[PathOf(tour[i])].exists, "ok"))
    /\ i' = i + 1
    /\ UNCHANGED <<tourJson, audioDir, pc, runs, overwrite, updateFlag,
                   mutagen, tour, success, backfill, unread, exitCode>>

\* Variant: the error is reported and the loop goes on to the next stop.
GenerateFail_Continues ==
    /\ pc = "loop"
    /\ i <= Len(tour)
    /\ ~ShouldSkip(files[PathOf(tour[i])].exists, overwrite)
    /\ \/ files' = files
       \/ files' = [files EXCEPT ![PathOf(tour[i])] = AudioFile(0)]
    /\ calls' = Append(calls, Call(i, files[PathOf(tour[i])].exists, "fail"))
    /\ i' = i + 1
    /\ UNCHANGED <<tourJson, audioDir, pc, runs, overwrite, updateFlag,
                   mutagen, tour, success, backfill, unread, exitCode>>

\* generate_audio raises: the file is untouched, or was opened for writing
\* and holds no audio; process_tour reports the error and returns False
GenerateFail ==
    /\ pc = "loop"
    /\ i <= Len(tour)
    /\ ~ShouldSkip(files[PathOf(tour[i])].exists, overwrite)
    /\ \/ files' = files
       \/ files' = [files EXCEPT ![PathOf(tour[i])] = AudioFile(0)]
    /\ calls' = Append(calls, Call(i, files[PathOf(tour[i])].exists, "fail"))
    /\ success' = FALSE
    /\ pc' = "returned"
    /\ UNCHANGED <<tourJson, audioDir, runs, overwrite, updateFlag, mutagen,
                   tour, i, backfill, unread, exitCode>>

\* the loop is over: return True
ProcessTourDone ==
    /\ pc = "loop"
    /\ i > Len(tour)
    /\ success' = TRUE
    /\ pc' = "returned"
    /\ UNCHANGED <<tourJson, audioDir, files, runs, overwrite, updateFlag,
                   mutagen, tour, i, calls, backfill, unread, exitCode>>

\* ---- update_tour_durations ----

\* the path of a stop's audio file, as update_tour_durations computes it
AudioPath(stop) ==
    LET audio_file == IF "audioFile" \in DOMAIN stop
                      THEN stop.audioFile
                      ELSE "audio/" \o Pad2(stop.id) \o "-stop.mp3"
    IN  IF StartsWith(audio_file, "audio/")
        THEN audio_file
        ELSE "audio/" \o audio_file

\* Variant: only a missing duration counts as different.
Differs_OnlyMissing(stop, duration) == "audioDuration" \notin DOMAIN stop

\* stop.get('audioDuration') != duration
Differs(stop, duration) ==
    \/ "audioDuration" \notin DOMAIN stop
    \/ stop.audioDuration # duration

\* stop['audioDuration'] = duration
SetDuration(stop, duration) ==
    [k \in DOMAIN stop \cup {"audioDuration"} |->
        IF k = "audioDuration" THEN duration ELSE stop[k]]

\* the body of the loop over the stops; unreadable: MP3(...) raises
ScanStop(stop, fs, unreadable) ==
    IF /\ fs[AudioPath(stop)].exists
       /\ ~unreadable
       /\ Differs(stop, Duration(fs[AudioPath(stop)]))
    THEN SetDuration(stop, Duration(fs[AudioPath(stop)]))
    ELSE stop

\* Variant: the document is always written back.
Updated_Always(stops, fs, bad) == TRUE

\* updated: some stop's duration was set
Updated(stops, fs, bad) ==
    \E k \in 1..Len(stops) :
        /\ fs[AudioPath(stops[k])].exists
        /\ k \notin bad
        /\ Differs(stops[k], Duration(fs[AudioPath(stops[k])]))

\* Variant: the scan goes on after the note about the missing reader.
UpdateTourDurations_NoReturn(json, fs, importOk, bad) ==
    LET stops == JsonLoad(json)
        scanned == [k \in 1..Len(stops) |-> ScanStop(stops[k], fs, k \in bad)]
    IN  IF Updated(stops, fs, bad)
        THEN [file |-> JsonDump(scanned), status |-> "written"]
        ELSE [file |-> json, status |-> "unchanged"]

\* update_tour_durations(tour_folder); bad: the stops whose file cannot be read
UpdateTourDurations(json, fs, importOk, bad) ==
    IF ~importOk
    THEN [file |-> json, status |-> "no_mutagen"]
    ELSE LET stops == JsonLoad(json)
             scanned == [k \in 1..Len(stops) |-> ScanStop(stops[k], fs, k \in bad)]
         IN  IF Updated(stops, fs, bad)
             THEN [file |-> JsonDump(scanned), status |-> "written"]
             ELSE [file |-> json, status |-> "unchanged"]

\* ---- main ----

\* Variant: the flag is not consulted.
RunsBackfill_IgnoresFlag(ok, flag) == ok

\* if success and args.update_durations
RunsBackfill(ok, flag) == ok /\ flag

NewRun ==
    /\ tour' = <<>>
    /\ i' = 1
    /\ calls' = <<>>
    /\ success' = FALSE
    /\ backfill' = "none"
    /\ unread' = {}
    /\ exitCode' = 0

\* edge_tts cannot be imported: report and sys.exit(1)
ImportFails ==
    /\ pc = "idle"
    /\ tour' = <<>>
    /\ i' = 1
    /\ calls' = <<>>
    /\ success' = FALSE
    /\ backfill' = "none"
    /\ unread' = {}
    /\ exitCode' = 1
    /\ overwrite' = FALSE
    /\ updateFlag' = FALSE
    /\ mutagen' = FALSE
    /\ UNCHANGED <<tourJson, audioDir, files, pc, runs>>

\* --list-voices: list the voices and return
MainListVoices ==
    /\ pc = "idle"
    /\ NewRun
    /\ overwrite' = FALSE
    /\ updateFlag' = FALSE
    /\ mutagen' = FALSE
    /\ UNCHANGED <<tourJson, audioDir, files, pc, runs>>

\* no tour folder given: print the help and return
MainNoFolder ==
    /\ pc = "idle"
    /\ NewRun
    /\ overwrite' = FALSE
    /\ updateFlag' = FALSE
    /\ mutagen' = FALSE
    /\ UNCHANGED <<tourJson, audioDir, files, pc, runs>>

\* a tour folder is given: call process_tour
MainGenerate ==
    /\ pc = "idle"
    /\ runs < MaxRuns
    /\ NewRun
    /\ \E ow \in BOOLEAN, up \in BOOLEAN :
          /\ overwrite' = ow
          /\ updateFlag' = up
    /\ mutagen' = FALSE
    /\ pc' = "process_tour"
    /\ runs' = runs + 1
    /\ UNCHANGED <<tourJson, audioDir, files>>

\* process_tour returned and the durations are to be updated
MainUpdateDurations ==
    /\ pc = "returned"
    /\ RunsBackfill(success, updateFlag)
    /\ \E importOk \in BOOLEAN :
          \E bad \in IF importOk THEN SUBSET (1..Len(JsonLoad(tourJson))) ELSE {{}} :
             LET r == UpdateTourDurations(tourJson, files, importOk, bad)
             IN  /\ mutagen' = importOk
                 /\ tourJson' = r.file
                 /\ backfill' = r.status
                 /\ unread' = bad
    /\ pc' = "idle"
    /\ UNCHANGED <<audioDir, files, runs, overwrite, updateFlag, tour, i,
                   calls, success, exitCode>>

\* process_tour returned and main ends without updating the durations
MainEnd ==
    /\ pc = "returned"
    /\ ~RunsBackfill(success, updateFlag)
    /\ backfill' = "not_run"
    /\ pc' = "idle"
    /\ UNCHANGED <<tourJson, audioDir, files, runs, overwrite, updateFlag,
                   mutagen, tour, i, calls, success, unread, exitCode>>

Next ==
    \/ ImportFails
    \/ MainListVoices
    \/ MainNoFolder
    \/ MainGenerate
    \/ ProcessTourMissing
    \/ ProcessTourLoad
    \/ SkipStop
    \/ GenerateOk
    \/ GenerateFail
    \/ ProcessTourDone
    \/ MainUpdateDurations
    \/ MainEnd

Spec == Init /\ [][Next]_vars

\* ---- properties ----

\* the stops of tour.json on disk
DiskStops == IF tourJson.exists THEN tourJson.stops ELSE <<>>

\* the path the stop's audio is expected at: the explicit name beneath
\* audio/, or audio/<id on two digits>-stop.mp3
ExpectedPath(stop) ==
    IF "audioFile" \in DOMAIN stop THEN "audio/intro.mp3"
    ELSE IF stop.id = 1 THEN "audio/01-stop.mp3"
    ELSE "audio/12-stop.mp3"

\* the length of the audio at a path, in whole seconds
ActualSeconds(fs, p) == fs[p].halfSeconds \div 2

ExistingFiles == {p \in DOMAIN files : files[p].exists}

HasFailed == \E k \in DOMAIN calls : calls[k].outcome = "fail"

\* a run that called process_tour has ended
RunEnded == pc = "idle" /\ backfill # "none"

\* C1: when the synthesis of a stop fails, the failing stop is the last one
\* process_tour touches (no later stop is skipped, synthesized or written),
\* process_tour returns False, and the files written for the earlier stops of
\* the run are still there.
C1_FailureStopsBatch ==
    /\ [](\A k \in DOMAIN calls :
            /\ calls[k].stop = k
            /\ calls[k].outcome = "fail" =>
                 /\ k = Len(calls)
                 /\ pc \in {"returned", "idle"}
                 /\ ~success
                 /\ \A j \in 1..(k - 1) :
                       calls[j].outcome = "ok" =>
                           files[ExpectedPath(tour[j])].exists)
    /\ [][HasFailed /\ HasFailed' => files' = files /\ calls' = calls]_vars

\* C1 witness: the first of two stops failed, the second was never reached.
C1_Witness ==
    /\ pc = "idle"
    /\ Len(tour) = 2
    /\ Len(calls) = 1
    /\ calls[1].outcome = "fail"
    /\ ~success
    /\ ~files[ExpectedPath(tour[2])].exists

\* C2: without the overwrite flag, a stop whose audio file exists when the
\* loop reaches it gets no synthesis call, its file (as every file) is left
\* as it is, and the loop goes on to the next stop without a failure.
C2_ExistingFileSkipped ==
    [][(/\ pc = "loop"
        /\ i <= Len(tour)
        /\ ~overwrite
        /\ files[ExpectedPath(tour[i])].exists)
       => (/\ files' = files
           /\ calls' = Append(calls, Call(i, TRUE, "skip"))
           /\ pc' = "loop"
           /\ i' = i + 1
           /\ success' = success)]_vars

\* C2 witness: a second run without the flag skipped both stops and succeeded.
C2_Witness ==
    /\ runs = 2
    /\ pc = "idle"
    /\ ~overwrite
    /\ success
    /\ Len(calls) = 2
    /\ \A k \in DOMAIN calls : calls[k].outcome = "skip"

\* C3: with the overwrite flag no stop is skipped: every stop the loop has
\* passed had a synthesis call, whether or not its file existed, and a run
\* that returns True has synthesized every stop of the tour.
C3_OverwriteResynthesizes ==
    overwrite =>
        /\ \A k \in DOMAIN calls : calls[k].stop = k /\ calls[k].outcome # "skip"
        /\ pc = "loop" => Len(calls) = i - 1
        /\ (pc \in {"returned", "idle"} /\ success) =>
               /\ Len(calls) = Len(tour)
               /\ \A k \in DOMAIN calls : calls[k].outcome = "ok"

\* C3 witness: a second run with the flag synthesized two stops whose files
\* existed already.
C3_Witness ==
    /\ runs = 2
    /\ pc = "idle"
    /\ overwrite
    /\ success
    /\ Len(calls) = 2
    /\ \A k \in DOMAIN calls : calls[k].existed /\ calls[k].outcome = "ok"

AllDurationsMatch ==
    \A k \in DOMAIN DiskStops :
        /\ "audioDuration" \in DOMAIN DiskStops[k]
        /\ files[ExpectedPath(DiskStops[k])].exists
        /\ DiskStops[k].audioDuration
              = ActualSeconds(files, ExpectedPath(DiskStops[k]))

\* C5: when every recorded duration matches its file, the duration update
\* leaves tour.json exactly as it is, layout included; and whenever the
\* update writes tour.json, the recorded duration of some stop has changed.
C5_NoRewriteWhenMatching ==
    [][/\ (pc = "returned" /\ success /\ updateFlag /\ AllDurationsMatch)
          => tourJson' = tourJson
       /\ (pc = "returned" /\ backfill' = "written")
          => \E k \in DOMAIN DiskStops :
                \/ "audioDuration" \notin DOMAIN DiskStops[k]
                \/ tourJson'.stops[k].audioDuration # DiskStops[k].audioDuration
      ]_vars

\* C5 witness: the update ran on a hand-written document whose durations all
\* matched, and left it alone.
C5_Witness ==
    /\ pc = "idle"
    /\ backfill = "unchanged"
    /\ unread = {}
    /\ Len(DiskStops) = 2
    /\ tourJson.format = "hand"
    /\ AllDurationsMatch

\* C6: the duration update sets the recorded duration of every stop whose
\* file exists, can be read and has another whole-second length than the one
\* recorded (or none recorded) to that length, writes the document when there
\* is such a stop, and leaves every other stop and every other key as it was.
C6_ExactlyAffectedStops ==
    [][(pc = "returned" /\ success /\ updateFlag /\ mutagen') =>
         /\ Len(tourJson'.stops) = Len(DiskStops)
         /\ \A k \in DOMAIN DiskStops :
               LET old == DiskStops[k]
                   new == tourJson'.stops[k]
                   path == ExpectedPath(old)
                   affected ==
                       /\ files[path].exists
                       /\ k \notin unread'
                       /\ \/ "audioDuration" \notin DOMAIN old
                          \/ old.audioDuration # ActualSeconds(files, path)
               IN  IF affected
                   THEN /\ DOMAIN new = DOMAIN old \cup {"audioDuration"}
                        /\ new.audioDuration = ActualSeconds(files, path)
                        /\ \A f \in DOMAIN old \ {"audioDuration"} : new[f] = old[f]
                        /\ backfill' = "written"
                        /\ tourJson'.format = "indent2"
                   ELSE new = old
      ]_vars

\* C6 witness: the update wrote the document; the first stop now records the
\* length 0 that only the update can have put there, the second records 1.
C6_Witness ==
    /\ pc = "idle"
    /\ backfill = "written"
    /\ unread = {}
    /\ Len(DiskStops) = 2
    /\ "audioDuration" \in DOMAIN DiskStops[1]
    /\ DiskStops[1].audioDuration = 0
    /\ "audioDuration" \in DOMAIN DiskStops[2]
    /\ DiskStops[2].audioDuration = 1

\* C7: while tour.json is missing, no audio directory and no audio file is
\* created, no stop is touched, process_tour returns False and the duration
\* update does not run.
C7_MissingTourJson ==
    ~tourJson.exists =>
        /\ ~audioDir
        /\ ExistingFiles = {}
        /\ calls = <<>>
        /\ pc # "loop"
        /\ ~success
        /\ backfill \in {"none", "not_run"}

\* C7 witness: a run with --update-durations ended on a folder without
\* tour.json.
C7_Witness ==
    /\ ~tourJson.exists
    /\ pc = "idle"
    /\ runs = 1
    /\ updateFlag
    /\ backfill = "not_run"

\* C8: when mutagen cannot be imported, the duration update leaves tour.json
\* and the audio files as they are and the run ends with exit status 0.
C8_MissingReaderNotFatal ==
    [][(pc = "returned" /\ success /\ updateFlag /\ ~mutagen') =>
         /\ tourJson' = tourJson
         /\ files' = files
         /\ backfill' = "no_mutagen"
         /\ pc' = "idle"
         /\ exitCode' = 0
      ]_vars

\* C8 witness: a successful generation ended with the note, and a stop still
\* lacks the duration of its existing file.
C8_Witness ==
    /\ pc = "idle"
    /\ backfill = "no_mutagen"
    /\ success
    /\ exitCode = 0
    /\ \E k \in DOMAIN DiskStops :
          /\ "audioDuration" \notin DOMAIN DiskStops[k]
          /\ files[ExpectedPath(DiskStops[k])].exists

\* C9 as stated: at the end of every run, every stop that records a duration
\* and whose file exists (and holds audio) records the whole-second length of
\* that file.
C9_DurationsMatchAfterEveryRun ==
    RunEnded =>
        \A k \in DOMAIN DiskStops :
            (/\ "audioDuration" \in DOMAIN DiskStops[k]
             /\ files[ExpectedPath(DiskStops[k])].exists
             /\ files[ExpectedPath(DiskStops[k])].halfSeconds > 0)
            => DiskStops[k].audioDuration
                  = ActualSeconds(files, ExpectedPath(DiskStops[k]))

\* C9 amended: at the end of a run whose duration update scanned the files
\* (generation succeeded, --update-durations given, mutagen importable),
\* every stop whose file exists and could be read records the whole-second
\* length of that file.
C9_DurationsMatchAfterBackfill ==
    (pc = "idle" /\ backfill \in {"written", "unchanged"}) =>
        \A k \in DOMAIN DiskStops :
            (/\ files[ExpectedPath(DiskStops[k])].exists
             /\ k \notin unread)
            => /\ "audioDuration" \in DOMAIN DiskStops[k]
               /\ DiskStops[k].audioDuration
                     = ActualSeconds(files, ExpectedPath(DiskStops[k]))

\* C9 witness: a second run overwrote the audio and its update rewrote the
\* durations.
C9_Witness ==
    /\ pc = "idle"
    /\ runs = 2
    /\ overwrite
    /\ backfill = "written"
    /\ unread = {}
    /\ Len(DiskStops) = 2

\* C10: tour.json changes only in the step of main that follows a successful
\* process_tour with --update-durations given.
C10_OnlyBackfillWrites ==
    [][tourJson' # tourJson =>
         /\ pc = "returned"
         /\ success
         /\ updateFlag
         /\ pc' = "idle"
      ]_vars

\* C10 witness: a run with --update-durations failed after writing audio and
\* ended with the hand-written tour.json untouched.
C10_Witness ==
    /\ pc = "idle"
    /\ updateFlag
    /\ ~success
    /\ backfill = "not_run"
    /\ Len(calls) = 2
    /\ calls[1].outcome = "ok"
    /\ tourJson.format = "hand"

====
